---- MODULE Spec2Model ----
(***************************************************************************)
(* Email delivery pipeline of email_service: the job store (models.py),    *)
(* the broker topology and the publishers (task_queue.py, queue.py), the   *)
(* ingress (main.py) and the consumer (worker.py: callback, process_email, *)
(* and the pybreaker.CircuitBreaker that guards send_email).               *)
(***************************************************************************)
EXTENDS Integers, Sequences, FiniteSets, TLC

(* ------------------------------ bounds --------------------------------- *)
\* most messages waiting for a callback at one time, ready in email.queue or
\* delivered to a consumer that is still busy
MaxQueue == 1
\* seconds that pass in one step of the wall clock
TickStep == 15
\* most consecutive failures a breaker counts in the model
MaxFailCount == 5

(* --------------------------- program constants ------------------------- *)
MAX_RETRIES == 5
BASE_DELAY == 2
fail_max == 3
reset_timeout == 30
prefetch_count == 1
max_attempts == 10
delay_seconds == 3

QUEUE_NAME == "email.queue"
EXCHANGE == "notifications.direct"
EMAIL_ROUTING_KEY == "email"
EMAIL_QUEUE == "email.queue"
DLX_EXCHANGE == "notifications.dlx"
DLQ_QUEUE == "failed.queue"

CIRCUIT_OPEN_MESSAGE == "Circuit breaker open"
SEND_ERROR == "Failed to send email after trying all methods"
STORE_ERROR == "store error"

(* ------------------------------ universe ------------------------------- *)
Consumers == {"w1", "w2"}
JobIds == {"j1", "j2"}
RetryCounts == 0 .. MAX_RETRIES

EmailStatus == {"queued", "processing", "sent", "failed", "delivered", "bounced"}

NoJob == [status |-> "none", retry_count |-> 0, error_message |-> "", sent_at |-> FALSE]

\* a row of email_messages, as queue_email and callback create it
EmailMessage == [status |-> "queued", retry_count |-> 0, error_message |-> "", sent_at |-> FALSE]

\* the message bodies callback tells apart
JobMsg(j, n) == [kind |-> "job", email_id |-> j, retry_count |-> n]
GatewayMsg == [kind |-> "gateway", email_id |-> "", retry_count |-> 0]
InvalidGatewayMsg == [kind |-> "gateway_invalid", email_id |-> "", retry_count |-> 0]
MalformedMsg == [kind |-> "malformed", email_id |-> "", retry_count |-> 0]

\* bodies callback does not hand to process_email directly
OtherMsgs == {GatewayMsg, InvalidGatewayMsg, MalformedMsg}

(* The environment of a run: the consumer processes that are deployed, the   *)
(* ids uuid4 hands out, the payloads the producers publish and whether the   *)
(* store and the broker may raise (faults).                                  *)
\* one consumer, one job (j2 is never created: a message for it finds no row);
\* messages for a first attempt, for the last retry and for a used-up budget,
\* and bodies that name no job
Env == [workers |-> {"w1"}, jobs |-> {"j1"},
        menu |-> {JobMsg("j1", n) : n \in {0, MAX_RETRIES - 1, MAX_RETRIES}}
                   \cup {JobMsg("j2", 0), InvalidGatewayMsg, MalformedMsg},
        faults |-> BOOLEAN]
\* one consumer, two jobs, first attempts only, no store or broker fault
EnvBreaker == [workers |-> {"w1"}, jobs |-> JobIds,
               menu |-> {JobMsg(j, 0) : j \in JobIds},
               faults |-> {FALSE}]
\* one consumer, one job, a message for every retry count
EnvRetry == [workers |-> {"w1"}, jobs |-> {"j1"},
             menu |-> {JobMsg("j1", n) : n \in RetryCounts},
             faults |-> BOOLEAN]
\* one consumer; the rows are the ones callback creates for gateway messages,
\* each under a fresh id, and a job message names the first of them
EnvGateway == [workers |-> {"w1"}, jobs |-> JobIds,
               menu |-> {GatewayMsg, JobMsg("j1", 0)},
               faults |-> BOOLEAN]
\* two consumers, one job, messages for its last retry (a failed attempt
\* sleeps 16 s), no store or broker fault
EnvConc == [workers |-> Consumers, jobs |-> {"j1"},
            menu |-> {JobMsg("j1", MAX_RETRIES - 1)},
            faults |-> {FALSE}]

Min(a, b) == IF a < b THEN a ELSE b

RECURSIVE Pow(_, _)
Pow(b, n) == IF n = 0 THEN 1 ELSE b * Pow(b, n - 1)

VARIABLES
  store,       \* email_messages: job id -> row (NoJob when absent)
  exchanges,   \* declared exchanges
  queues,      \* declared queues: name -> "none" | "plain" | "dlx"
  bindings,    \* <<exchange, routing key, queue>>
  emailQueue,  \* messages ready in email.queue
  dlq,         \* messages in failed.queue
  consuming,   \* consumers that have reached start_consuming
  unacked,     \* consumer -> the messages delivered to it and not acknowledged
  pc,          \* consumer -> position in callback / process_email
  local,       \* consumer -> locals of the handling in progress
  breaker,     \* consumer -> its process-wide circuit breaker
  streak,      \* history: consumer -> the transport failures in a row that its
               \* process has seen since the last success, and their jobs
  connection   \* a call of get_connection: its arguments, its attempt counter,
               \* the connects made, the waits slept and how it ended

vars == <<store, exchanges, queues, bindings, emailQueue, dlq, consuming,
          unacked, pc, local, breaker, streak, connection>>

brokerVars == <<exchanges, queues, bindings>>

(* ------------------------------ breaker -------------------------------- *)
\* pybreaker.CircuitBreaker(fail_max=3, reset_timeout=30): state, the
\* consecutive-failure counter and the seconds since opened_at
NewBreaker == [state |-> "closed", fail_counter |-> 0, elapsed |-> 0]

\* the breaker lets the call through (closed, or open with the timeout over:
\* half-open trial call)
BreakerAdmits(b) == b.state = "closed" \/ b.elapsed >= reset_timeout

\* a breaker that trips one failure late (counter > fail_max)
BreakerCallLate(b, outcome) ==
  IF ~BreakerAdmits(b)
    THEN [breaker |-> b, invoked |-> FALSE, raised |-> "CircuitBreakerError"]
  ELSE IF outcome = "ok"
    THEN [breaker |-> NewBreaker, invoked |-> TRUE, raised |-> ""]
  ELSE IF b.state = "open" \/ b.fail_counter + 1 > fail_max
    THEN [breaker |-> [state |-> "open", fail_counter |-> b.fail_counter + 1,
                       elapsed |-> 0],
          invoked |-> TRUE, raised |-> "CircuitBreakerError"]
  ELSE [breaker |-> [b EXCEPT !.fail_counter = b.fail_counter + 1],
        invoked |-> TRUE, raised |-> "Exception"]

\* a breaker whose failed trial call leaves opened_at as it was
BreakerCallNoRestart(b, outcome) ==
  IF ~BreakerAdmits(b)
    THEN [breaker |-> b, invoked |-> FALSE, raised |-> "CircuitBreakerError"]
  ELSE IF outcome = "ok"
    THEN [breaker |-> NewBreaker, invoked |-> TRUE, raised |-> ""]
  ELSE IF b.state = "open" \/ b.fail_counter + 1 >= fail_max
    THEN [breaker |-> [state |-> "open", fail_counter |-> b.fail_counter + 1,
                       elapsed |-> b.elapsed],
          invoked |-> TRUE, raised |-> "CircuitBreakerError"]
  ELSE [breaker |-> [b EXCEPT !.fail_counter = b.fail_counter + 1],
        invoked |-> TRUE, raised |-> "Exception"]

\* breaker.call(send_email, ...) where the transport, if invoked, ends in
\* outcome ("ok" | "fail"): the new breaker, whether send_email was invoked,
\* and what the call raised ("" when it returned)
BreakerCall(b, outcome) ==
  IF ~BreakerAdmits(b)
    THEN [breaker |-> b, invoked |-> FALSE, raised |-> "CircuitBreakerError"]
  ELSE IF outcome = "ok"
    THEN [breaker |-> NewBreaker, invoked |-> TRUE, raised |-> ""]
  ELSE IF b.state = "open" \/ b.fail_counter + 1 >= fail_max
    THEN [breaker |-> [state |-> "open", fail_counter |-> b.fail_counter + 1,
                       elapsed |-> 0],
          invoked |-> TRUE, raised |-> "CircuitBreakerError"]
  ELSE [breaker |-> [b EXCEPT !.fail_counter = b.fail_counter + 1],
        invoked |-> TRUE, raised |-> "Exception"]

\* d seconds pass for a breaker: only an open breaker looks at the clock
Elapse(b, d) ==
  IF b.state = "open" THEN [b EXCEPT !.elapsed = Min(b.elapsed + d, reset_timeout)]
  ELSE b

(* ------------------------------- broker -------------------------------- *)
\* queues a direct exchange routes a routing key to
Route(exchange, key) == {q \in DOMAIN queues : <<exchange, key, q>> \in bindings}

\* basic_publish: the ready messages of email.queue afterwards
Published(exchange, key, msg) ==
  IF EMAIL_QUEUE \in Route(exchange, key) THEN Append(emailQueue, msg) ELSE emailQueue

\* task_queue.publish_email_job: exchange notifications.direct, routing key QUEUE_NAME
TaskQueuePublish(msg) == Published(EXCHANGE, QUEUE_NAME, msg)

\* queue.publish_email_job: exchange EXCHANGE, routing key EMAIL_ROUTING_KEY
QueuePublish(msg) == Published(EXCHANGE, EMAIL_ROUTING_KEY, msg)

\* messages delivered to the consumers S that no callback has been given yet
RECURSIVE Buffered(_)
Buffered(S) ==
  IF S = {} THEN 0
  ELSE LET c == CHOOSE d \in S : TRUE
           n == IF pc[c] \in {"idle", "acked"} THEN Len(unacked[c])
                ELSE Len(unacked[c]) - 1
       IN n + Buffered(S \ {c})

\* task_queue.publish_email_job: BasicProperties(delivery_mode=2), no headers
TaskQueueProperties == [delivery_mode |-> 2, headers |-> <<>>]

\* queue.publish_email_job with its default request_id and priority:
\* BasicProperties(delivery_mode=2, headers, priority)
QueueProperties ==
  [delivery_mode |-> 2, headers |-> [request_id |-> "", retry_count |-> 0], priority |-> 0]

\* locals of callback and process_email: the job and retry count of the message,
\* the status read at line 32 (seen), the attributes of the instance email as
\* the session last read them from the store (loaded), whether send_email was
\* invoked and what breaker.call raised, the delay slept, the message
\* re-published for a retry and where it was routed, and whether an exception
\* reached one of callback's except clauses
NoLocal == [email_id |-> "", retry_count |-> 0, seen |-> "", loaded |-> NoJob,
            invoked |-> FALSE, raised |-> "", delay |-> 0, published |-> <<>>,
            routed |-> {}, error |-> FALSE]

NoStreak == [n |-> 0, jobs |-> {}]

\* the streak after a call of the breaker for job j
Streak(st, j, invoked, outcome) ==
  IF ~invoked THEN st
  ELSE IF outcome = "ok" THEN NoStreak
  ELSE [n |-> st.n + 1, jobs |-> st.jobs \cup {j}]

InitService ==
  /\ store = [j \in JobIds |-> NoJob]
  /\ exchanges = {}
  /\ queues = [q \in {EMAIL_QUEUE, DLQ_QUEUE} |-> "none"]
  /\ bindings = {}
  /\ emailQueue = <<>>
  /\ dlq = <<>>
  /\ consuming = {}
  /\ unacked = [c \in Consumers |-> <<>>]
  /\ pc = [c \in Consumers |-> "idle"]
  /\ local = [c \in Consumers |-> NoLocal]
  /\ breaker = [c \in Consumers |-> NewBreaker]
  /\ streak = [c \in Consumers |-> NoStreak]

\* get_connection 16-18: a call with arguments m and d, before its first attempt
Connecting(m, d) ==
  [max_attempts |-> m, delay_seconds |-> d, attempt |-> 1, connects |-> 0,
   waits |-> <<>>, outcome |-> "pending"]

Init ==
  /\ InitService
  /\ connection = Connecting(max_attempts, delay_seconds)

\* a call of get_connection with any arguments up to the defaults
InitConnect ==
  /\ InitService
  /\ connection \in {Connecting(m, d) : m \in 1..max_attempts, d \in 1..delay_seconds}

(* ----------------------------- connection ------------------------------ *)
\* a loop that gives up one failure later
GiveUpLate(attempt, m) == attempt > m

\* get_connection 23: if attempt >= max_attempts: raise
GiveUp(attempt, m) == attempt >= m

\* get_connection 26: wait_time = delay_seconds * attempt
WaitTime(d, attempt) == d * attempt

\* get_connection 19-32, one turn of the loop: BlockingConnection(params)
\* returns the connection (up), or raises AMQPConnectionError and the loop
\* re-raises it or sleeps wait_time and goes round again
get_connection ==
  /\ connection.outcome = "pending"
  /\ \E up \in BOOLEAN :
       LET tried == [connection EXCEPT !.connects = connection.connects + 1] IN
       connection' =
         IF up THEN [tried EXCEPT !.outcome = "connected"]
         ELSE IF GiveUp(connection.attempt, connection.max_attempts)
           THEN [tried EXCEPT !.outcome = "raised"]
         ELSE [tried EXCEPT !.waits = Append(connection.waits,
                                             WaitTime(connection.delay_seconds,
                                                      connection.attempt)),
                            !.attempt = connection.attempt + 1]
  /\ UNCHANGED <<store, brokerVars, emailQueue, dlq, consuming, unacked, pc, local,
                 breaker, streak>>

(* ------------------------------ topology ------------------------------- *)
(* A setup makes one broker round trip per declaration, and other processes  *)
(* run between them. Declarations are idempotent and nothing is ever         *)
(* deleted, so the round trip that changes the broker is the first one whose *)
(* object is missing: each step below is that round trip.                    *)
\* channel.exchange_declare(exchange=x): creates the exchange if it is missing
exchange_declare(x) ==
  /\ exchanges' = exchanges \cup {x}
  /\ UNCHANGED <<queues, bindings>>

\* channel.queue_declare(queue=q) with arguments args ("plain": none, "dlx":
\* the dead-letter arguments): creates the queue if it is missing; the broker
\* refuses (PRECONDITION_FAILED) when q exists with other arguments
queue_declare(q, args) ==
  /\ queues[q] \in {"none", args}
  /\ queues' = [queues EXCEPT ![q] = args]
  /\ UNCHANGED <<exchanges, bindings>>

\* channel.queue_bind(exchange=x, queue=q, routing_key=key)
queue_bind(x, key, q) ==
  /\ bindings' = bindings \cup {<<x, key, q>>}
  /\ UNCHANGED <<exchanges, queues>>

\* what setup_queue and start_worker declare is all there
Declared ==
  /\ EXCHANGE \in exchanges
  /\ queues[QUEUE_NAME] = "plain"
  /\ <<EXCHANGE, "email", QUEUE_NAME>> \in bindings

\* the next round trip of exchange_declare, queue_declare, queue_bind
\* (task_queue.py 45, 48, 51; worker.py 172, 175, 178) that finds its object
\* missing; a queue_declare that the broker refuses ends the run
Declare ==
  /\ ~Declared
  /\ IF EXCHANGE \notin exchanges THEN exchange_declare(EXCHANGE)
     ELSE IF queues[QUEUE_NAME] = "none" THEN queue_declare(QUEUE_NAME, "plain")
     ELSE /\ queues[QUEUE_NAME] = "plain"
          /\ queue_bind(EXCHANGE, "email", QUEUE_NAME)

\* task_queue.setup_queue, run by main.py at import: one round trip
setup_queue ==
  /\ Declare
  /\ UNCHANGED <<store, emailQueue, dlq, consuming, unacked, pc, local,
                 breaker, streak, connection>>

\* queue.setup_infrastructure, one round trip: both exchanges, email.queue
\* with its dead-letter arguments and its binding, failed.queue and its
\* binding; the broker refuses the declaration of email.queue when it exists
\* without the arguments, and the rest is not run
setup_infrastructure ==
  /\ IF EXCHANGE \notin exchanges THEN exchange_declare(EXCHANGE)
     ELSE IF DLX_EXCHANGE \notin exchanges THEN exchange_declare(DLX_EXCHANGE)
     ELSE IF queues[EMAIL_QUEUE] # "dlx" THEN queue_declare(EMAIL_QUEUE, "dlx")
     ELSE IF <<EXCHANGE, EMAIL_ROUTING_KEY, EMAIL_QUEUE>> \notin bindings
       THEN queue_bind(EXCHANGE, EMAIL_ROUTING_KEY, EMAIL_QUEUE)
     ELSE IF queues[DLQ_QUEUE] = "none" THEN queue_declare(DLQ_QUEUE, "plain")
     ELSE /\ <<DLX_EXCHANGE, "failed", DLQ_QUEUE>> \notin bindings
          /\ queue_bind(DLX_EXCHANGE, "failed", DLQ_QUEUE)
  /\ UNCHANGED <<store, emailQueue, dlq, consuming, unacked, pc, local,
                 breaker, streak, connection>>

\* worker.start_worker 172-181, one round trip: a declaration, or, with all
\* of them made, basic_qos and basic_consume, which register the consumer
start_worker(c) ==
  /\ c \notin consuming
  /\ IF Declared
       THEN consuming' = consuming \cup {c} /\ UNCHANGED brokerVars
       ELSE Declare /\ UNCHANGED consuming
  /\ UNCHANGED <<store, emailQueue, dlq, unacked, pc, local, breaker, streak,
                 connection>>

(* ------------------------------- ingress ------------------------------- *)
\* main.queue_email: the row is committed under a fresh id, then the job is
\* published with task_queue.publish_email_job (down: the broker is
\* unreachable, the publish raises and the handler answers 500 with the row
\* already committed)
queue_email(J, F) ==
  /\ EXCHANGE \in exchanges
  /\ \E j \in J, down \in F :
       /\ store[j] = NoJob
       /\ store' = [store EXCEPT ![j] = EmailMessage]
       /\ emailQueue' = IF down THEN emailQueue ELSE TaskQueuePublish(JobMsg(j, 0))
  /\ Len(emailQueue') + Buffered(Consumers) <= MaxQueue
  /\ UNCHANGED <<brokerVars, dlq, consuming, unacked, pc, local, breaker,
                 streak, connection>>

\* queue.publish_email_job(payload)
publish_email_job(payload) ==
  /\ EXCHANGE \in exchanges
  /\ emailQueue' = QueuePublish(payload)
  /\ Len(emailQueue') + Buffered(Consumers) <= MaxQueue
  /\ UNCHANGED <<store, brokerVars, dlq, consuming, unacked, pc, local,
                 breaker, streak, connection>>

\* the delivery tracker outside this service records a receipt: sent -> delivered
DeliveryReceipt(j) ==
  /\ store[j].status = "sent"
  /\ store' = [store EXCEPT ![j].status = "delivered"]
  /\ UNCHANGED <<brokerVars, emailQueue, dlq, consuming, unacked, pc, local,
                 breaker, streak, connection>>

\* the wall clock advances while some open breaker waits for its timeout
Tick ==
  /\ \E c \in Consumers : breaker[c].state = "open" /\ breaker[c].elapsed < reset_timeout
  /\ breaker' = [c \in Consumers |-> Elapse(breaker[c], TickStep)]
  /\ UNCHANGED <<store, brokerVars, emailQueue, dlq, consuming, unacked, pc,
                 local, streak, connection>>

(* ------------------------------ consumer ------------------------------- *)
\* consumer c moves to position p with locals loc
Goto(c, p, loc) ==
  /\ pc' = [pc EXCEPT ![c] = p]
  /\ local' = [local EXCEPT ![c] = loc]

\* an exception is on its way to one of callback's except clauses (149, 158)
Raise(c, loc) == Goto(c, "ack", [loc EXCEPT !.error = TRUE])

\* db.commit() of the row of job j with its fields set as in row
Commit(j, row) == store' = [store EXCEPT ![j] = row]

\* the row after the session flushes the assignments new, made to an instance
\* whose attributes were last read as loaded: the UPDATE carries only the
\* attributes whose value differs from the one read, the others keep what the
\* store holds
Flush(loaded, row, new) ==
  [a \in DOMAIN row |->
     IF a \in DOMAIN new /\ new[a] # loaded[a] THEN new[a] ELSE row[a]]

\* a consumer that never called basic_qos: the broker does not limit deliveries
MayDeliverNoQos(c) == TRUE

\* basic_qos(prefetch_count=1): the broker delivers to a consumer only while
\* it holds fewer than prefetch_count unacknowledged messages
MayDeliver(c) == Len(unacked[c]) < prefetch_count

\* the broker delivers the head of email.queue to a consumer that is inside
\* callback: the message waits, unacknowledged, in the blocking connection
\* until callback returns (basic_consume without auto_ack)
Deliver(c) ==
  /\ c \in consuming
  /\ pc[c] # "idle"
  /\ emailQueue # <<>>
  /\ MayDeliver(c)
  /\ emailQueue' = Tail(emailQueue)
  /\ unacked' = [unacked EXCEPT ![c] = Append(unacked[c], Head(emailQueue))]
  /\ UNCHANGED <<store, brokerVars, dlq, consuming, pc, local, breaker, streak,
                 connection>>

\* a consumer waiting in start_consuming is handed the oldest message
\* delivered to it, or else the head of email.queue, which the broker delivers
\* now; callback parses it (worker.py 84-105) and, for a gateway message,
\* commits a new row (140-141; fault: the commit raises) and refreshes it
\* (142; fault2: the refresh raises with the row committed); uuid4 gives the
\* row an id of J that no row has, so J bounds the rows callback can create
Receive(c, J, F) ==
  /\ c \in consuming
  /\ pc[c] = "idle"
  /\ IF unacked[c] # <<>>
       THEN UNCHANGED <<emailQueue, unacked>>
       ELSE /\ emailQueue # <<>>
            /\ MayDeliver(c)
            /\ emailQueue' = Tail(emailQueue)
            /\ unacked' = [unacked EXCEPT ![c] = <<Head(emailQueue)>>]
  /\ LET msg == Head(unacked'[c]) IN
     /\ CASE msg.kind = "malformed" ->
               Raise(c, local[c]) /\ UNCHANGED store
          [] msg.kind = "gateway_invalid" ->
               Goto(c, "ack", local[c]) /\ UNCHANGED store
          [] msg.kind = "gateway" ->
               \E j \in J, fault \in F, fault2 \in F :
                 /\ store[j] = NoJob
                 /\ IF fault
                      THEN Raise(c, local[c]) /\ UNCHANGED store
                      ELSE /\ Commit(j, EmailMessage)
                           /\ IF fault2 THEN Raise(c, local[c])
                              ELSE Goto(c, "load", [local[c] EXCEPT !.email_id = j,
                                                                    !.retry_count = 0])
          [] OTHER ->
               /\ Goto(c, "load", [local[c] EXCEPT !.email_id = msg.email_id,
                                                   !.retry_count = msg.retry_count])
               /\ UNCHANGED store
  /\ UNCHANGED <<brokerVars, dlq, consuming, breaker, streak, connection>>

\* a load without the check of line 28
LoadNoMissingCheck(c, F) ==
  /\ pc[c] = "load"
  /\ \E fault \in F :
       LET email == store[local[c].email_id]
           loc == [local[c] EXCEPT !.seen = email.status, !.loaded = email]
       IN IF fault THEN Raise(c, local[c])
          ELSE IF email.status = "sent" THEN Goto(c, "ack", loc)
          ELSE Goto(c, "mark", loc)
  /\ UNCHANGED <<store, brokerVars, emailQueue, dlq, consuming, unacked,
                 breaker, streak, connection>>

\* process_email 27-34: load the row; absent or already sent: return
Load(c, F) ==
  /\ pc[c] = "load"
  /\ \E fault \in F :
       LET email == store[local[c].email_id]
           loc == [local[c] EXCEPT !.seen = email.status, !.loaded = email]
       IN IF fault THEN Raise(c, local[c])
          ELSE IF email = NoJob THEN Goto(c, "ack", loc)
          ELSE IF email.status = "sent" THEN Goto(c, "ack", loc)
          ELSE Goto(c, "mark", loc)
  /\ UNCHANGED <<store, brokerVars, emailQueue, dlq, consuming, unacked,
                 breaker, streak, connection>>

\* process_email 36-37: status = processing, commit
Mark(c, F) ==
  /\ pc[c] = "mark"
  /\ \E fault \in F :
       IF fault THEN Raise(c, local[c]) /\ UNCHANGED store
       ELSE /\ Commit(local[c].email_id,
                      Flush(local[c].loaded, store[local[c].email_id],
                            [status |-> "processing"]))
            /\ Goto(c, "reload", local[c])
  /\ UNCHANGED <<brokerVars, emailQueue, dlq, consuming, unacked, breaker,
                 streak, connection>>

\* process_email 38: the commit has expired the instance, and the read of
\* email.to_email loads the row again; the read is outside the try of line 40,
\* so an exception it raises goes to callback
Reload(c, F) ==
  /\ pc[c] = "reload"
  /\ \E fault \in F :
       IF fault THEN Raise(c, local[c])
       ELSE Goto(c, "call", [local[c] EXCEPT !.loaded = store[local[c].email_id]])
  /\ UNCHANGED <<store, brokerVars, emailQueue, dlq, consuming, unacked,
                 breaker, streak, connection>>

\* a backoff whose exponent is the number of the retry (n + 1)
DelayFromOne(n) == Pow(BASE_DELAY, n + 1)

\* the delay before the retry of an attempt that consumed retry_count n (61)
Delay(n) == Pow(BASE_DELAY, n)

\* a handler that retries once more, at retry_count = MAX_RETRIES too
RetryableOnceMore(n) == n <= MAX_RETRIES

\* process_email 59: is the failed attempt retried?
Retryable(n) == n < MAX_RETRIES

\* process_email 56-63 and 73-76: the handler of a failed attempt, e its message
OnFailure(c, loc, e, fault) ==
  IF Retryable(loc.retry_count)
    THEN /\ Goto(c, "sleep", [loc EXCEPT !.delay = Delay(loc.retry_count)])
         /\ UNCHANGED store
  ELSE IF fault THEN Raise(c, loc) /\ UNCHANGED store
  ELSE /\ Commit(loc.email_id,
                 Flush(loc.loaded, store[loc.email_id],
                       [status |-> "failed", error_message |-> e]))
       /\ Goto(c, "ack", loc)

\* a success branch that leaves sent_at as it was
MarkSentNoTimestamp == [status |-> "sent"]

\* process_email 44-45: status = sent, sent_at = utcnow()
MarkSent == [status |-> "sent", sent_at |-> TRUE]

\* process_email 40-42 and 56-62: breaker.call(send_email, ...) returns or
\* raises; a failure that is retried goes on to its backoff sleep, every other
\* result to the commit of its branch
Call(c) ==
  /\ pc[c] = "call"
  /\ \E outcome \in {"ok", "fail"} :
       /\ outcome = "fail" => breaker[c].fail_counter < MaxFailCount
       /\ LET r == BreakerCall(breaker[c], outcome)
              loc == [local[c] EXCEPT !.invoked = r.invoked, !.raised = r.raised]
          IN
          /\ breaker' = [breaker EXCEPT ![c] = r.breaker]
          /\ streak' = [streak EXCEPT ![c] = Streak(streak[c], loc.email_id,
                                                    r.invoked, outcome)]
          /\ IF r.raised = "Exception" /\ Retryable(loc.retry_count)
               THEN Goto(c, "sleep", [loc EXCEPT !.delay = Delay(loc.retry_count)])
               ELSE Goto(c, "commit", loc)
  /\ UNCHANGED <<store, brokerVars, emailQueue, dlq, consuming, unacked, connection>>

\* process_email 44-46, 52-54 and 73-76: the assignments and the commit of
\* the branch the call's result took (a commit of line 46 that raises is
\* handled at line 56 like a failed send)
Persist(c, F) ==
  /\ pc[c] = "commit"
  /\ \E fault \in F, fault2 \in F :
       LET loc == local[c]
           j == loc.email_id
       IN CASE loc.raised = "" ->
                 IF fault THEN OnFailure(c, loc, STORE_ERROR, fault2)
                 ELSE /\ Commit(j, Flush(loc.loaded, store[j], MarkSent))
                      /\ Goto(c, "ack", loc)
            [] loc.raised = "CircuitBreakerError" ->
                 IF fault THEN Raise(c, loc) /\ UNCHANGED store
                 ELSE /\ Commit(j, Flush(loc.loaded, store[j],
                                          [status |-> "failed",
                                           error_message |-> CIRCUIT_OPEN_MESSAGE]))
                      /\ Goto(c, "ack", loc)
            [] OTHER -> OnFailure(c, loc, SEND_ERROR, fault)
  /\ UNCHANGED <<brokerVars, emailQueue, dlq, consuming, unacked, breaker,
                 streak, connection>>

\* process_email 63-69: time.sleep(delay), then publish_email_job with
\* retry_count + 1 (down: the broker is unreachable and the publish raises)
Sleep(c, F) ==
  /\ pc[c] = "sleep"
  /\ breaker' = [d \in Consumers |-> Elapse(breaker[d], local[c].delay)]
  /\ \E down \in F :
       IF down THEN Raise(c, local[c]) /\ UNCHANGED emailQueue
       ELSE LET msg == JobMsg(local[c].email_id, local[c].retry_count + 1) IN
            /\ emailQueue' = TaskQueuePublish(msg)
            /\ Goto(c, "requeue", [local[c] EXCEPT !.published = <<msg>>,
                                                   !.routed = Route(EXCHANGE, QUEUE_NAME)])
  /\ Len(emailQueue') + Buffered(Consumers) <= MaxQueue
  /\ UNCHANGED <<store, brokerVars, dlq, consuming, unacked, streak, connection>>

\* process_email 71-72: status = queued, commit
Requeue(c, F) ==
  /\ pc[c] = "requeue"
  /\ \E fault \in F :
       IF fault THEN Raise(c, local[c]) /\ UNCHANGED store
       ELSE /\ Commit(local[c].email_id,
                      Flush(local[c].loaded, store[local[c].email_id],
                            [status |-> "queued"]))
            /\ Goto(c, "ack", local[c])
  /\ UNCHANGED <<brokerVars, emailQueue, dlq, consuming, unacked, breaker,
                 streak, connection>>

\* callback 104, 155, 160: basic_ack, on every path
Ack(c) ==
  /\ pc[c] = "ack"
  /\ unacked' = [unacked EXCEPT ![c] = Tail(unacked[c])]
  /\ pc' = [pc EXCEPT ![c] = "acked"]
  /\ UNCHANGED <<store, brokerVars, emailQueue, dlq, consuming, local, breaker,
                 streak, connection>>

\* callback returns; the consumer waits for the next delivery
Return(c) ==
  /\ pc[c] = "acked"
  /\ Goto(c, "idle", NoLocal)
  /\ UNCHANGED <<store, brokerVars, emailQueue, dlq, consuming, unacked,
                 breaker, streak, connection>>

\* a consumer registered with auto_ack: the broker forgets a message as it
\* delivers it, and a closing connection returns nothing to the queue
ShutdownAutoAck(c) ==
  /\ c \in consuming
  /\ consuming' = consuming \ {c}
  /\ unacked' = [unacked EXCEPT ![c] = <<>>]
  /\ Goto(c, "idle", NoLocal)
  /\ breaker' = [breaker EXCEPT ![c] = NewBreaker]
  /\ streak' = [streak EXCEPT ![c] = NoStreak]
  /\ UNCHANGED <<store, brokerVars, emailQueue, dlq, connection>>

\* start_worker 186-192: the process is interrupted, waiting in
\* start_consuming or anywhere inside callback; the connection closes and the
\* broker requeues the messages delivered to it and not acknowledged
Shutdown(c) ==
  /\ c \in consuming
  /\ emailQueue' = unacked[c] \o emailQueue
  /\ Len(emailQueue') + Buffered(Consumers \ {c}) <= MaxQueue
  /\ consuming' = consuming \ {c}
  /\ unacked' = [unacked EXCEPT ![c] = <<>>]
  /\ Goto(c, "idle", NoLocal)
  /\ breaker' = [breaker EXCEPT ![c] = NewBreaker]
  /\ streak' = [streak EXCEPT ![c] = NoStreak]
  /\ UNCHANGED <<store, brokerVars, dlq, connection>>

(* --------------------------- specifications ---------------------------- *)
\* one consumer with store and broker faults
Next ==
  \/ setup_queue
  \/ \E c \in Env.workers : start_worker(c)
  \/ queue_email(Env.jobs, Env.faults)
  \/ \E p \in Env.menu : publish_email_job(p)
  \/ \E j \in JobIds : DeliveryReceipt(j)
  \/ Tick
  \/ \E c \in Env.workers : Deliver(c)
  \/ \E c \in Env.workers : Receive(c, Env.jobs, Env.faults)
  \/ \E c \in Env.workers : Load(c, Env.faults)
  \/ \E c \in Env.workers : Mark(c, Env.faults)
  \/ \E c \in Env.workers : Reload(c, Env.faults)
  \/ \E c \in Env.workers : Call(c)
  \/ \E c \in Env.workers : Persist(c, Env.faults)
  \/ \E c \in Env.workers : Sleep(c, Env.faults)
  \/ \E c \in Env.workers : Requeue(c, Env.faults)
  \/ \E c \in Env.workers : Ack(c)
  \/ \E c \in Env.workers : Return(c)
  \/ \E c \in Env.workers : Shutdown(c)

Spec == Init /\ [][Next]_vars

NextBreaker ==
  \/ setup_queue
  \/ \E c \in EnvBreaker.workers : start_worker(c)
  \/ queue_email(EnvBreaker.jobs, EnvBreaker.faults)
  \/ \E p \in EnvBreaker.menu : publish_email_job(p)
  \/ Tick
  \/ \E c \in EnvBreaker.workers : Deliver(c)
  \/ \E c \in EnvBreaker.workers : Receive(c, EnvBreaker.jobs, EnvBreaker.faults)
  \/ \E c \in EnvBreaker.workers : Load(c, EnvBreaker.faults)
  \/ \E c \in EnvBreaker.workers : Mark(c, EnvBreaker.faults)
  \/ \E c \in EnvBreaker.workers : Reload(c, EnvBreaker.faults)
  \/ \E c \in EnvBreaker.workers : Call(c)
  \/ \E c \in EnvBreaker.workers : Persist(c, EnvBreaker.faults)
  \/ \E c \in EnvBreaker.workers : Sleep(c, EnvBreaker.faults)
  \/ \E c \in EnvBreaker.workers : Requeue(c, EnvBreaker.faults)
  \/ \E c \in EnvBreaker.workers : Ack(c)
  \/ \E c \in EnvBreaker.workers : Return(c)
  \/ \E c \in EnvBreaker.workers : Shutdown(c)

SpecBreaker == Init /\ [][NextBreaker]_vars

\* the setups of all three components, in any order
NextTopology ==
  \/ setup_infrastructure
  \/ setup_queue
  \/ \E c \in EnvBreaker.workers : start_worker(c)
  \/ queue_email(EnvBreaker.jobs, EnvBreaker.faults)
  \/ \E p \in EnvBreaker.menu : publish_email_job(p)
  \/ Tick
  \/ \E c \in EnvBreaker.workers : Deliver(c)
  \/ \E c \in EnvBreaker.workers : Receive(c, EnvBreaker.jobs, EnvBreaker.faults)
  \/ \E c \in EnvBreaker.workers : Load(c, EnvBreaker.faults)
  \/ \E c \in EnvBreaker.workers : Mark(c, EnvBreaker.faults)
  \/ \E c \in EnvBreaker.workers : Reload(c, EnvBreaker.faults)
  \/ \E c \in EnvBreaker.workers : Call(c)
  \/ \E c \in EnvBreaker.workers : Persist(c, EnvBreaker.faults)
  \/ \E c \in EnvBreaker.workers : Sleep(c, EnvBreaker.faults)
  \/ \E c \in EnvBreaker.workers : Requeue(c, EnvBreaker.faults)
  \/ \E c \in EnvBreaker.workers : Ack(c)
  \/ \E c \in EnvBreaker.workers : Return(c)
  \/ \E c \in EnvBreaker.workers : Shutdown(c)

SpecTopology == Init /\ [][NextTopology]_vars

\* every attempt of a job, from the first to the one past the last retry, with
\* store and broker faults
NextRetry ==
  \/ setup_queue
  \/ \E c \in EnvRetry.workers : start_worker(c)
  \/ queue_email(EnvRetry.jobs, EnvRetry.faults)
  \/ \E p \in EnvRetry.menu : publish_email_job(p)
  \/ Tick
  \/ \E c \in EnvRetry.workers : Deliver(c)
  \/ \E c \in EnvRetry.workers : Receive(c, EnvRetry.jobs, EnvRetry.faults)
  \/ \E c \in EnvRetry.workers : Load(c, EnvRetry.faults)
  \/ \E c \in EnvRetry.workers : Mark(c, EnvRetry.faults)
  \/ \E c \in EnvRetry.workers : Reload(c, EnvRetry.faults)
  \/ \E c \in EnvRetry.workers : Call(c)
  \/ \E c \in EnvRetry.workers : Persist(c, EnvRetry.faults)
  \/ \E c \in EnvRetry.workers : Sleep(c, EnvRetry.faults)
  \/ \E c \in EnvRetry.workers : Requeue(c, EnvRetry.faults)
  \/ \E c \in EnvRetry.workers : Ack(c)
  \/ \E c \in EnvRetry.workers : Return(c)
  \/ \E c \in EnvRetry.workers : Shutdown(c)

SpecRetry == Init /\ [][NextRetry]_vars

\* the consumer fed by the gateway, with store and broker faults
NextGateway ==
  \/ setup_queue
  \/ \E c \in EnvGateway.workers : start_worker(c)
  \/ \E p \in EnvGateway.menu : publish_email_job(p)
  \/ Tick
  \/ \E c \in EnvGateway.workers : Deliver(c)
  \/ \E c \in EnvGateway.workers : Receive(c, EnvGateway.jobs, EnvGateway.faults)
  \/ \E c \in EnvGateway.workers : Load(c, EnvGateway.faults)
  \/ \E c \in EnvGateway.workers : Mark(c, EnvGateway.faults)
  \/ \E c \in EnvGateway.workers : Reload(c, EnvGateway.faults)
  \/ \E c \in EnvGateway.workers : Call(c)
  \/ \E c \in EnvGateway.workers : Persist(c, EnvGateway.faults)
  \/ \E c \in EnvGateway.workers : Sleep(c, EnvGateway.faults)
  \/ \E c \in EnvGateway.workers : Requeue(c, EnvGateway.faults)
  \/ \E c \in EnvGateway.workers : Ack(c)
  \/ \E c \in EnvGateway.workers : Return(c)
  \/ \E c \in EnvGateway.workers : Shutdown(c)

SpecGateway == Init /\ [][NextGateway]_vars

\* one call of get_connection against a broker that is up or down at each attempt
NextConnect == get_connection

SpecConnect == InitConnect /\ [][NextConnect]_vars

NextConc ==
  \/ setup_queue
  \/ \E c \in EnvConc.workers : start_worker(c)
  \/ queue_email(EnvConc.jobs, EnvConc.faults)
  \/ \E p \in EnvConc.menu : publish_email_job(p)
  \/ Tick
  \/ \E c \in EnvConc.workers : Deliver(c)
  \/ \E c \in EnvConc.workers : Receive(c, EnvConc.jobs, EnvConc.faults)
  \/ \E c \in EnvConc.workers : Load(c, EnvConc.faults)
  \/ \E c \in EnvConc.workers : Mark(c, EnvConc.faults)
  \/ \E c \in EnvConc.workers : Reload(c, EnvConc.faults)
  \/ \E c \in EnvConc.workers : Call(c)
  \/ \E c \in EnvConc.workers : Persist(c, EnvConc.faults)
  \/ \E c \in EnvConc.workers : Sleep(c, EnvConc.faults)
  \/ \E c \in EnvConc.workers : Requeue(c, EnvConc.faults)
  \/ \E c \in EnvConc.workers : Ack(c)
  \/ \E c \in EnvConc.workers : Return(c)
  \/ \E c \in EnvConc.workers : Shutdown(c)

SpecConc == Init /\ [][NextConc]_vars

(* ------------------------------- claims -------------------------------- *)
Range(q) == {q[i] : i \in 1 .. Len(q)}

\* consumer c has acknowledged the message it was handling
Settled(c) == pc[c] = "acked"

\* the attempt of consumer c invoked the transport and the transport failed
\* with the breaker still closed (the generic except clause, line 56)
TransportFailed(c) == local[c].invoked /\ local[c].raised = "Exception"

\* C1: once the transport has failed on the attempt that exhausts the retry
\* budget of a job, the job is failed and its message is dead-lettered: it is
\* in failed.queue and not in email.queue.
C1_ExhaustedIsDeadLettered ==
  \A c \in Consumers :
    (Settled(c) /\ TransportFailed(c) /\ ~local[c].error
       /\ local[c].retry_count >= MAX_RETRIES)
    => /\ store[local[c].email_id].status = "failed"
       /\ JobMsg(local[c].email_id, local[c].retry_count) \in Range(dlq)
       /\ JobMsg(local[c].email_id, local[c].retry_count) \notin Range(emailQueue)

\* C2: a message whose job is read as sent or delivered causes no transport
\* call and no change of the job: the consumer goes straight to the
\* acknowledgment.
C2_ReplayIsIdempotent ==
  \A c \in Consumers :
    local[c].seen \in {"sent", "delivered"}
    => pc[c] \in {"ack", "acked"} /\ ~local[c].invoked

\* the status changes the consumer may make
ConsumerTransitions ==
  {<<"queued", "processing">>, <<"processing", "sent">>,
   <<"processing", "queued">>, <<"processing", "failed">>}

\* the status changes made outside the consumer: creation and the receipt
OutsideTransitions == {<<"none", "queued">>, <<"sent", "delivered">>}

\* C3: every status change of a job is queued->processing, processing->sent,
\* processing->queued or processing->failed (besides its creation and the
\* delivery receipt): none leaves sent, delivered or failed.
C3_TransitionsFollowStateMachine ==
  [][\A j \in JobIds :
       store'[j].status # store[j].status
       => <<store[j].status, store'[j].status>>
            \in ConsumerTransitions \cup OutsideTransitions]_vars

\* C4: with several consumers, a job whose status is sent or delivered never
\* afterwards has status processing or queued.
C4_SuccessNeverRegresses ==
  [][\A j \in JobIds :
       store[j].status \in {"sent", "delivered"}
       => store'[j].status \notin {"processing", "queued"}]_vars

\* C5: when an exception other than a transport failure or a circuit-open
\* rejection is raised while a job's message is handled, the message is not
\* acknowledged with the job left in queued or processing.
C5_NoAckWithJobInFlight ==
  \A c \in Consumers :
    (Settled(c) /\ local[c].error /\ local[c].email_id # "")
    => store[local[c].email_id].status \notin {"queued", "processing"}

\* C6: the retry re-publish of process_email is routed to email.queue.
C6_PublishReachesPrimaryQueue ==
  \A c \in Consumers : pc[c] = "requeue" => EMAIL_QUEUE \in local[c].routed

\* C7: the persisted retry_count is incremented once per failed attempt: after
\* an attempt whose transport call failed it is at least 1.
C7_RetryCountCountsFailures ==
  \A c \in Consumers :
    (Settled(c) /\ TransportFailed(c) /\ ~local[c].error)
    => store[local[c].email_id].retry_count >= 1

BackoffSequence == <<1, 2, 4, 8, 16>>
ClaimedBackoffSequence == <<2, 4, 8, 16, 32>>

\* C8 (as claimed): the delay before the retry of the attempt that consumed
\* retry count n is the (n+1)-th of 2, 4, 8, 16, 32.
C8_DelaysAsClaimed ==
  \A c \in Consumers :
    pc[c] = "sleep" => local[c].delay = ClaimedBackoffSequence[local[c].retry_count + 1]

\* C8 (amended): the delay before the retry of the attempt that consumed retry
\* count n (0..4) is the (n+1)-th of 1, 2, 4, 8, 16 (BASE_DELAY^n); a failed
\* attempt with retry count 5 or more waits for nothing and the job is failed.
C8_BackoffDelays ==
  \A c \in Consumers :
    /\ pc[c] \in {"sleep", "requeue"}
       => /\ local[c].retry_count \in 0 .. 4
          /\ local[c].delay = BackoffSequence[local[c].retry_count + 1]
    /\ (TransportFailed(c) /\ local[c].retry_count >= 5)
       => /\ local[c].delay = 0
          /\ pc[c] \in {"commit", "ack", "acked"}
          /\ (pc[c] \in {"ack", "acked"} /\ ~local[c].error)
             => store[local[c].email_id].status = "failed"

C8_Witness ==
  \E c \in Consumers :
    pc[c] = "sleep" /\ local[c].retry_count = 4 /\ local[c].delay = 16

\* C9: a job is marked failed with 'Circuit breaker open' only in an attempt in
\* which the breaker refused the call without invoking the transport.
C9_CircuitOpenOnlyWhenRefused ==
  \A c \in Consumers :
    (pc[c] \in {"ack", "acked"} /\ local[c].raised = "CircuitBreakerError"
       /\ ~local[c].error
       /\ store[local[c].email_id].error_message = CIRCUIT_OPEN_MESSAGE)
    => ~local[c].invoked

\* consumer c's call of the breaker returns or raises in this step
Calls(c) == pc[c] = "call" /\ pc'[c] \in {"commit", "sleep"}

\* C10: once a consumer has seen fail_max (3) transport failures in a row,
\* counted across jobs and reset by any success, every call before the
\* timeout has elapsed is rejected without invoking the transport; and a call
\* is rejected only then.
C10_OpenBreakerRejects ==
  [][\A c \in Consumers :
       Calls(c)
       => /\ (streak[c].n >= fail_max /\ breaker[c].elapsed < reset_timeout)
             => (~local'[c].invoked /\ local'[c].raised = "CircuitBreakerError")
          /\ ~local'[c].invoked => streak[c].n >= fail_max]_vars

C10_Witness ==
  \E c \in Consumers :
    /\ pc[c] = "ack"
    /\ ~local[c].invoked
    /\ local[c].raised = "CircuitBreakerError"
    /\ streak[c] = [n |-> fail_max, jobs |-> JobIds]

\* C11: a call made once the breaker has been open for reset_timeout (30 s) is
\* let through to the transport as the trial call: if it succeeds the breaker
\* is closed with its counter at zero; if it fails the breaker is open again
\* with the timeout restarted, and until it has elapsed no call invokes the
\* transport.
C11_TrialCall ==
  [][\A c \in Consumers :
       (Calls(c) /\ breaker[c].state = "open")
       => IF breaker[c].elapsed >= reset_timeout
            THEN /\ local'[c].invoked
                 /\ local'[c].raised \in {"", "CircuitBreakerError"}
                 /\ local'[c].raised = ""
                    => breaker'[c] = [state |-> "closed", fail_counter |-> 0, elapsed |-> 0]
                 /\ local'[c].raised = "CircuitBreakerError"
                    => /\ breaker'[c].state = "open"
                       /\ breaker'[c].elapsed = 0
                       /\ breaker'[c].fail_counter = breaker[c].fail_counter + 1
            ELSE /\ ~local'[c].invoked
                 /\ breaker'[c] = breaker[c]]_vars

\* a trial call has failed: the breaker is open again, its timeout restarted
C11_Witness ==
  \E c \in Consumers :
    /\ pc[c] = "ack"
    /\ local[c].invoked
    /\ local[c].raised = "CircuitBreakerError"
    /\ breaker[c] = [state |-> "open", fail_counter |-> fail_max + 1, elapsed |-> 0]

\* C12: a message whose job id has no row in the store is acknowledged without
\* a transport call, a write to the store, a wait or a re-publish.
C12_MissingJobIsDropped ==
  \A c \in Consumers :
    local[c].seen = "none"
    => /\ pc[c] \in {"ack", "acked"}
       /\ ~local[c].invoked
       /\ local[c].raised = ""
       /\ local[c].delay = 0
       /\ local[c].routed = {}
       /\ ~local[c].error

C12_Witness ==
  \E c \in Consumers :
    /\ Settled(c)
    /\ local[c].seen = "none"
    /\ local[c].email_id = "j2"
    /\ store["j2"] = NoJob

\* C13: a consumer never holds more than one unacknowledged message, and from
\* the start of a handling up to its acknowledgment the message being handled
\* is the only one delivered to that consumer.
C13_OneMessageAtATime ==
  \A c \in Consumers :
    /\ Len(unacked[c]) <= 1
    /\ pc[c] \notin {"idle", "acked"} => Len(unacked[c]) = 1

\* a message waits in email.queue while the consumer is in the transport call
\* for the one it holds
C13_Witness ==
  \E c \in Consumers :
    /\ pc[c] = "call"
    /\ Len(unacked[c]) = 1
    /\ emailQueue # <<>>

\* C14: no two consumers are at the same time between loading a job's row and
\* finally persisting it for the same job.
C14_OneConsumerPerJob ==
  \A c, d \in Consumers :
    (/\ c # d
     /\ pc[c] \in {"mark", "reload", "call", "commit", "sleep", "requeue"}
     /\ pc[d] \in {"mark", "reload", "call", "commit", "sleep", "requeue"})
    => local[c].email_id # local[d].email_id

\* C15: the message process_email re-publishes for a retry is persistent and
\* carries a retry_count header equal to the retry count of the attempt it
\* asks for, the failed attempt's count plus one.
C15_RetryCountInHeaders ==
  \A c \in Consumers :
    pc[c] = "requeue"
    => /\ TaskQueueProperties.delivery_mode = 2
       /\ "retry_count" \in DOMAIN TaskQueueProperties.headers
       /\ TaskQueueProperties.headers.retry_count = local[c].retry_count + 1

\* C16: whichever setups have run, email.queue once declared is declared with
\* dead-letter exchange notifications.dlx, and failed.queue is declared and
\* bound to that exchange with routing key failed.
C16_QueueDeadLetters ==
  queues[EMAIL_QUEUE] # "none"
  => /\ queues[EMAIL_QUEUE] = "dlx"
     /\ DLX_EXCHANGE \in exchanges
     /\ queues[DLQ_QUEUE] # "none"
     /\ <<DLX_EXCHANGE, "failed", DLQ_QUEUE>> \in bindings

\* the commit of the branch that the call of consumer c took is made (or
\* raises) in this step, and the handling goes on to the acknowledgment
Persists(c) == pc[c] = "commit" /\ pc'[c] = "ack"

\* C17: every job with status sent has sent_at set; sent_at is set only by the
\* commit that follows a successful transport call, together with status
\* sent; a successful call that goes on to the acknowledgment has persisted
\* both (or, when that commit raised with the retries used up, has persisted
\* failed with the store's error); and the acknowledgment itself writes nothing.
C17_SentAtSetWithSent ==
  [][/\ \A j \in JobIds : store'[j].status = "sent" => store'[j].sent_at
     /\ \A j \in JobIds :
          (store'[j].sent_at /\ ~store[j].sent_at)
          => /\ store'[j].status = "sent"
             /\ \E c \in Consumers :
                  /\ Persists(c)
                  /\ local'[c].email_id = j
                  /\ local'[c].invoked
                  /\ local'[c].raised = ""
     /\ \A c \in Consumers :
          /\ (/\ Persists(c)
              /\ local'[c].invoked
              /\ local'[c].raised = ""
              /\ ~local'[c].error)
             => LET email == store'[local'[c].email_id]
                IN \/ email.status = "sent" /\ email.sent_at
                   \/ email.status = "failed" /\ email.error_message = STORE_ERROR
          /\ (pc[c] = "ack" /\ pc'[c] = "acked") => store' = store]_vars

\* a successful attempt is acknowledged with sent and sent_at in the store
C17_Witness ==
  \E c \in Consumers :
    /\ Settled(c)
    /\ local[c].invoked
    /\ local[c].raised = ""
    /\ store[local[c].email_id].status = "sent"
    /\ store[local[c].email_id].sent_at

\* C18: get_connection connects at most max_attempts times; the i-th wait is
\* delay_seconds * i; it raises only after max_attempts failed connects and
\* max_attempts - 1 waits; and once it has returned or raised it does nothing more.
C18_ConnectAttemptsBounded ==
  [][/\ connection'.connects <= connection'.max_attempts
     /\ connection'.connects = connection.connects + 1
     /\ Len(connection'.waits) < connection'.max_attempts
     /\ \A i \in 1..Len(connection'.waits) :
          connection'.waits[i] = connection'.delay_seconds * i
     /\ connection'.outcome = "raised"
        => /\ connection'.connects = connection'.max_attempts
           /\ Len(connection'.waits) = connection'.max_attempts - 1
     /\ connection'.outcome = "connected"
        => /\ Len(connection'.waits) = connection'.connects - 1
           /\ connection'.waits = connection.waits
     /\ connection.outcome = "pending"]_vars

\* the default call has raised after 10 connects and waits of 3, 6, ..., 27 seconds
C18_Witness ==
  /\ connection.outcome = "raised"
  /\ connection.max_attempts = max_attempts
  /\ connection.delay_seconds = delay_seconds
  /\ connection.connects = 10
  /\ connection.waits = <<3, 6, 9, 12, 15, 18, 21, 24, 27>>

\* C19: when a consumer's process is shut down during the sleep of a retry, the
\* message it was handling is unacknowledged and goes back to the head of
\* email.queue with the store untouched; a message that names its job finds
\* the job's row with status processing, which a later handling does not skip
\* (a gateway-format message is handled again as a new request).
C19_ShutdownInBackoffRequeues ==
  [][\A c \in Consumers :
       (pc[c] = "sleep" /\ pc'[c] = "idle")
       => /\ Len(unacked[c]) = 1
          /\ unacked'[c] = <<>>
          /\ c \notin consuming'
          /\ emailQueue' = unacked[c] \o emailQueue
          /\ store' = store
          /\ store[local[c].email_id].status = "processing"
          /\ Head(emailQueue').kind \in {"job", "gateway"}
          /\ Head(emailQueue').kind = "job"
             => /\ Head(emailQueue').email_id = local[c].email_id
                /\ Head(emailQueue').retry_count = local[c].retry_count]_vars

\* the message of an interrupted attempt has been redelivered to the restarted
\* consumer, which has loaded the row and goes on to process the job again
C19_Witness ==
  \E c \in Consumers :
    /\ pc[c] = "mark"
    /\ local[c].seen = "processing"
    /\ Head(unacked[c]).kind = "job"
    /\ breaker[c] = NewBreaker
    /\ emailQueue = <<>>

\* C20: an acknowledged attempt whose transport call failed has left a
\* non-empty error_message on the job, and no job has status sent with a
\* non-empty error_message.
C20_ErrorMessageTracksFailures ==
  /\ \A c \in Consumers :
       (Settled(c) /\ TransportFailed(c) /\ ~local[c].error)
       => store[local[c].email_id].error_message # ""
  /\ \A j \in JobIds :
       store[j].status = "sent" => store[j].error_message = ""

\* C21: a handling re-publishes at most one message, for its own job, only
\* when the retry count it consumed is below MAX_RETRIES and with that count
\* plus one; no message ready in email.queue or delivered to a consumer
\* carries a retry count above MAX_RETRIES.
C21_RetryCountBounded ==
  /\ \A c \in Consumers :
       local[c].published # <<>>
       => /\ Len(local[c].published) = 1
          /\ local[c].published[1].kind = "job"
          /\ local[c].published[1].email_id = local[c].email_id
          /\ local[c].retry_count < MAX_RETRIES
          /\ local[c].published[1].retry_count = local[c].retry_count + 1
          /\ local[c].published[1].retry_count <= MAX_RETRIES
          /\ local[c].invoked
          /\ pc[c] \in {"requeue", "ack", "acked"}
  /\ \A c \in Consumers :
       (TransportFailed(c) /\ local[c].retry_count >= MAX_RETRIES)
       => local[c].published = <<>>
  /\ \A q \in {emailQueue} \cup {unacked[c] : c \in Consumers} :
       \A i \in 1..Len(q) : q[i].retry_count <= MAX_RETRIES

\* the last retry of a job has been re-published, with retry_count MAX_RETRIES
C21_Witness ==
  \E c \in Consumers :
    /\ pc[c] = "requeue"
    /\ local[c].retry_count = MAX_RETRIES - 1
    /\ local[c].published = <<JobMsg(local[c].email_id, MAX_RETRIES)>>

\* C22: whenever a call of the breaker invokes the transport for a job, the
\* status of that job in the store is processing.
C22_ProcessingWhenInvoked ==
  [][\A c \in Consumers :
       (Calls(c) /\ local'[c].invoked)
       => store[local[c].email_id].status = "processing"]_vars

\* C23: once the message of a handling that set its job to processing and
\* reached the call of the breaker has been acknowledged, the job's status in
\* the store is no longer processing.
C23_ProcessingIsLeft ==
  \A c \in Consumers :
    (Settled(c) /\ (local[c].invoked \/ local[c].raised # ""))
    => store[local[c].email_id].status # "processing"

====
